---- MODULE Spec2Model ----
(***************************************************************************)
(* Creative brief pipeline of src/generate_brief.py: one run of main, from *)
(* the two answers of the text-generation service through the parse with   *)
(* repair (JSONValidator.validate_and_repair), the schema defaulter        *)
(* (BriefGenerator._build_brief_object), the safety classifier             *)
(* (ContentSafetyValidator.validate) and the step of generate_brief that   *)
(* attaches the verdict, to the two exports.  Text is modelled as TLA+     *)
(* strings, Python values as records tagged with their Python type.        *)
(***************************************************************************)
EXTENDS Integers, Sequences, FiniteSets, TLC

VARIABLES brief_content, shots_content, brief_data, shots_data, pc, brief,
          verdict, calls, error, loads, diag, steps, files, now, issued

vars == <<brief_content, shots_content, brief_data, shots_data, pc, brief,
          verdict, calls, error, loads, diag, steps, files, now, issued>>

(***************************************************************************)
(* Bounds of the model.                                                    *)
(***************************************************************************)
\* number of act entries the shots blob may supply
MaxActs == 4
\* number of shot entries the shots blob may supply (more than the 9 kept)
MaxShots == 10
\* number of direct calls of ContentSafetyValidator.validate on one brief
MaxCalls == 2
\* the clock runs over the seconds 0..MaxSecond, and in each over the
\* microseconds 0..MaxMicrosecond
MaxSecond == 1
MaxMicrosecond == 1
\* number of direct calls of BriefGenerator._generate_brief_id
MaxIds == 2

(***************************************************************************)
(* Python values.  json.loads returns dict, list, str, int or None; the    *)
(* brief's fields hold whatever dict.get returned, unconverted.            *)
(***************************************************************************)
JStr(s) == [t |-> "str", v |-> s]
JInt(n) == [t |-> "int", v |-> n]
JNone == [t |-> "NoneType", v |-> 0]
JBool(b) == [t |-> "bool", v |-> b]
\* a float is kept as the literal it was written with
JFloat(literal) == [t |-> "float", v |-> literal]
JList(xs) == [t |-> "list", v |-> xs]
\* a dict is its sequence of <<key, value>> pairs, in insertion order
JDict(kvs) == [t |-> "dict", v |-> kvs]

IsStr(x) == x.t = "str"
IsDict(x) == x.t = "dict"

HasKey(d, k) == \E i \in DOMAIN d.v : d.v[i][1] = k

\* dict.get(k, default): the value of key k, else the default
Get(d, k, default) ==
    IF HasKey(d, k)
    THEN d.v[CHOOSE i \in DOMAIN d.v : d.v[i][1] = k][2]
    ELSE default

(***************************************************************************)
(* String functions of Python used by the code.                            *)
(***************************************************************************)
UpperAlpha == "ABCDEFGHIJKLMNOPQRSTUVWXYZ"
LowerAlpha == "abcdefghijklmnopqrstuvwxyz"
Digits == "0123456789"

CharAt(s, i) == SubSeq(s, i, i)

IndexIn(alpha, c) == CHOOSE i \in 1..Len(alpha) : CharAt(alpha, i) = c

LowerMap == [c \in {CharAt(UpperAlpha, i) : i \in 1..26} |->
                CharAt(LowerAlpha, IndexIn(UpperAlpha, c))]
UpperMap == [c \in {CharAt(LowerAlpha, i) : i \in 1..26} |->
                CharAt(UpperAlpha, IndexIn(LowerAlpha, c))]

LowerChar(c) == IF c \in DOMAIN LowerMap THEN LowerMap[c] ELSE c
UpperChar(c) == IF c \in DOMAIN UpperMap THEN UpperMap[c] ELSE c
IsAlpha(c) == c \in DOMAIN LowerMap \/ c \in DOMAIN UpperMap

\* the two halves of a text; the character-wise functions below recurse on
\* them, which keeps the recursion depth logarithmic in the length
Left(s) == SubSeq(s, 1, Len(s) \div 2)
Right(s) == SubSeq(s, Len(s) \div 2 + 1, Len(s))

RECURSIVE Lower(_)
\* str.lower()
Lower(s) == IF Len(s) <= 1 THEN LowerChar(s) ELSE Lower(Left(s)) \o Lower(Right(s))

RECURSIVE Upper(_)
\* str.upper()
Upper(s) == IF Len(s) <= 1 THEN UpperChar(s) ELSE Upper(Left(s)) \o Upper(Right(s))

\* str.title() at one position: a letter after a non-letter is upper-cased,
\* a letter after a letter lower-cased
TitleChar(s, i) ==
    IF i > 1 /\ IsAlpha(CharAt(s, i - 1))
    THEN LowerChar(CharAt(s, i))
    ELSE UpperChar(CharAt(s, i))

RECURSIVE TitleRange(_, _, _)
TitleRange(s, lo, hi) ==
    IF lo > hi THEN ""
    ELSE IF lo = hi THEN TitleChar(s, lo)
    ELSE LET mid == (lo + hi) \div 2
         IN  TitleRange(s, lo, mid) \o TitleRange(s, mid + 1, hi)

\* str.title()
Title(s) == TitleRange(s, 1, Len(s))

RECURSIVE Replace(_, _, _)
\* str.replace(old, new) for a one-character old
Replace(s, old, new) ==
    IF Len(s) <= 1 THEN (IF s = old THEN new ELSE s)
    ELSE Replace(Left(s), old, new) \o Replace(Right(s), old, new)

\* the `in` operator on strings: k occurs as a substring of s
Contains(s, k) ==
    \E i \in 1..(Len(s) - Len(k) + 1) : SubSeq(s, i, i + Len(k) - 1) = k

HasChar(s, c) == \E i \in 1..Len(s) : CharAt(s, i) = c

\* str.split(sep)[0]: the text before the first separator
SplitFirst(s, sep) ==
    IF HasChar(s, sep)
    THEN LET i == CHOOSE j \in 1..Len(s) :
                    /\ CharAt(s, j) = sep
                    /\ \A h \in 1..(j - 1) : CharAt(s, h) # sep
         IN  SubSeq(s, 1, i - 1)
    ELSE s

Whitespace == {" ", "\t", "\n", "\r"}

RECURSIVE LStrip(_)
LStrip(s) == IF s # "" /\ Head(s) \in Whitespace THEN LStrip(Tail(s)) ELSE s

RECURSIVE RStrip(_)
RStrip(s) ==
    IF s # "" /\ CharAt(s, Len(s)) \in Whitespace
    THEN RStrip(SubSeq(s, 1, Len(s) - 1))
    ELSE s

\* str.strip()
Strip(s) == LStrip(RStrip(s))

IsDigit(c) == HasChar(Digits, c)
DigitVal(c) == IndexIn(Digits, c) - 1

RECURSIVE DigitsValue(_, _)
DigitsValue(s, acc) ==
    IF s = "" THEN acc
    ELSE IF Head(s) = "_" THEN DigitsValue(Tail(s), acc)
    ELSE DigitsValue(Tail(s), 10 * acc + DigitVal(Head(s)))

\* the digit part of an int literal: digits, single underscores between them
IsDigitRun(s) ==
    /\ s # ""
    /\ \A i \in 1..Len(s) : IsDigit(CharAt(s, i)) \/ CharAt(s, i) = "_"
    /\ IsDigit(Head(s))
    /\ IsDigit(CharAt(s, Len(s)))
    /\ ~Contains(s, "__")

\* the text int() parses after stripping: an optional sign, then the digits
Unsigned(s) == IF s # "" /\ Head(s) \in {"+", "-"} THEN Tail(s) ELSE s

\* int(s) raises ValueError unless s is a decimal literal
IntParses(s) == IsDigitRun(Unsigned(Strip(s)))

\* int(s) for a text that parses
IntOf(s) ==
    LET body == Strip(s)
        mag == DigitsValue(Unsigned(body), 0)
    IN  IF Head(body) = "-" THEN 0 - mag ELSE mag

RECURSIVE EscapeQuoted(_)
\* repr of a str escapes the backslash and the single quote it is quoted with
EscapeQuoted(s) ==
    IF Len(s) <= 1 THEN (IF s \in {"'", "\\"} THEN "\\" \o s ELSE s)
    ELSE EscapeQuoted(Left(s)) \o EscapeQuoted(Right(s))

RECURSIVE EscapeBackslash(_)
EscapeBackslash(s) ==
    IF Len(s) <= 1 THEN (IF s = "\\" THEN "\\\\" ELSE s)
    ELSE EscapeBackslash(Left(s)) \o EscapeBackslash(Right(s))

\* repr(str): double quotes when the text has a single quote and no double one
ReprStr(s) ==
    IF HasChar(s, "'") /\ ~HasChar(s, "\"")
    THEN "\"" \o EscapeBackslash(s) \o "\""
    ELSE "'" \o EscapeQuoted(s) \o "'"

RECURSIVE Repr(_)
RECURSIVE ReprItems(_)
RECURSIVE ReprPairs(_)
\* repr(x), which str() of a list or dict applies to the elements
Repr(x) ==
    CASE x.t = "str" -> ReprStr(x.v)
      [] x.t = "int" -> ToString(x.v)
      [] x.t = "NoneType" -> "None"
      [] x.t = "bool" -> IF x.v THEN "True" ELSE "False"
      [] x.t = "list" -> "[" \o ReprItems(x.v) \o "]"
      [] x.t = "dict" -> "{" \o ReprPairs(x.v) \o "}"

ReprItems(xs) ==
    IF xs = <<>> THEN ""
    ELSE Repr(Head(xs)) \o (IF Len(xs) > 1 THEN ", " ELSE "") \o ReprItems(Tail(xs))

ReprPairs(kvs) ==
    IF kvs = <<>> THEN ""
    ELSE ReprStr(Head(kvs)[1]) \o ": " \o Repr(Head(kvs)[2])
            \o (IF Len(kvs) > 1 THEN ", " ELSE "") \o ReprPairs(Tail(kvs))

\* str(x), what an f-string field {x} renders
Str(x) == IF x.t = "str" THEN x.v ELSE Repr(x)

(***************************************************************************)
(* Document model: the enums and dataclasses.                              *)
(***************************************************************************)
ContentRating == [G |-> "G", PG |-> "PG", PG_13 |-> "PG-13",
                  NOT_SUITABLE |-> "NOT_SUITABLE"]

ActType == [SETUP |-> "Setup", CONFRONTATION |-> "Confrontation",
            RESOLUTION |-> "Resolution"]

ContentSafetyCheck(is_safe, rating, safety_flags, warnings, recommendations) ==
    [is_safe |-> is_safe, rating |-> rating, safety_flags |-> safety_flags,
     warnings |-> warnings, recommendations |-> recommendations]

\* outcome of a call: the value it returned, or the exception it raised
NoValue == [none |-> TRUE]
Returned(x) == [exc |-> "", val |-> x]
Raised(e) == [exc |-> e, val |-> NoValue]

(***************************************************************************)
(* ContentSafetyValidator.                                                 *)
(***************************************************************************)
FORBIDDEN_KEYWORDS ==
    << <<"violence", <<"kill", "murder", "stab", "shoot", "gun", "weapon",
                       "blood", "death", "die", "dead">> >>,
       <<"adult_content", <<"sexual", "sex", "adult", "mature",
                            "inappropriate", "vulgar">> >>,
       <<"substance_abuse", <<"drug", "alcohol", "smoking", "drunk", "addict">> >>,
       <<"scary", <<"horror", "terrifying", "nightmare", "monster", "evil">> >> >>

CAUTION_KEYWORDS ==
    << <<"mild_conflict", <<"fight", "argue", "yell", "angry">> >>,
       <<"minor_peril", <<"danger", "risk", "injury", "hurt", "scared">> >> >>

POSITIVE_KEYWORDS ==
    << <<"educational", <<"learn", "discover", "explore", "understand",
                          "knowledge">> >>,
       <<"positive_values", <<"friendship", "help", "kind", "brave", "honest",
                              "share", "care">> >>,
       <<"growth", <<"grow", "improve", "overcome", "achieve", "success">> >> >>

RECURSIVE KeywordItems(_)
\* the <<category, keyword>> pairs of a taxonomy in the order the nested
\* loops `for category, keywords in ...: for keyword in keywords` visit them
KeywordItems(taxonomy) ==
    IF taxonomy = <<>> THEN <<>>
    ELSE LET category == Head(taxonomy)[1]
             keywords == Head(taxonomy)[2]
         IN  [i \in 1..Len(keywords) |-> <<category, keywords[i]>>]
                \o KeywordItems(Tail(taxonomy))

\* the pairs whose keyword satisfies `keyword in content_lower`
Matches(taxonomy, content_lower) ==
    LET hit(item) == Contains(content_lower, item[2])
    IN  SelectSeq(KeywordItems(taxonomy), hit)

Indent == "\n        "

\* the f-string of validate: only the fields in braces are substituted, the
\* two `" ".join(...)` lines are literal text of the template
content_to_check(b) ==
    Indent \o Str(b.title)
    \o Indent \o Str(b.synopsis)
    \o Indent \o Str(b.themes)
    \o Indent \o Str(b.moral_lessons)
    \o Indent \o Str(b.visual_style)
    \o Indent \o Str(b.animation_style)
    \o Indent \o "\" \".join([c.description for c in brief.characters])"
    \o Indent \o Str(b.world_building.location_description)
    \o Indent \o "\" \".join([s.narration for s in brief.nine_shot_breakdown])"
    \o Indent

safety_flag(item) == Upper(item[1]) \o ": '" \o item[2] \o "' detected"

warning(item) == Title(Replace(item[1], "_", " ")) \o ": '" \o item[2] \o "' detected"

\* RatingFor with the PG-13 threshold off by one (caution_count >= 3)
RatingFor_Pg13FromThree(forbidden_count, caution_count) ==
    IF forbidden_count > 0 THEN ContentRating.NOT_SUITABLE
    ELSE IF caution_count >= 3 THEN ContentRating.PG_13
    ELSE IF caution_count > 1 THEN ContentRating.PG
    ELSE ContentRating.G

RatingFor(forbidden_count, caution_count) ==
    IF forbidden_count > 0 THEN ContentRating.NOT_SUITABLE
    ELSE IF caution_count > 3 THEN ContentRating.PG_13
    ELSE IF caution_count > 1 THEN ContentRating.PG
    ELSE ContentRating.G

RatingRecommendations(forbidden_count, caution_count) ==
    IF forbidden_count > 0 THEN <<>>
    ELSE IF caution_count > 3 THEN <<"Consider reducing conflict intensity">>
    ELSE IF caution_count > 1 THEN <<"Minor parental guidance suggested">>
    ELSE <<>>

PositiveRecommendations(positive_count) ==
    IF positive_count > 5
    THEN <<"Strong positive messaging and educational value">>
    ELSE <<>>

\* AgeRecommendations with the age test off by one (age_range_lower <= 5)
AgeRecommendations_UpToFive(age_range_lower, caution_count) ==
    IF age_range_lower <= 5 /\ caution_count > 0
    THEN <<"Simplify language and reduce scary elements for younger audiences">>
    ELSE <<>>

AgeRecommendations(age_range_lower, caution_count) ==
    IF age_range_lower < 5 /\ caution_count > 0
    THEN <<"Simplify language and reduce scary elements for younger audiences">>
    ELSE <<>>

\* ContentSafetyValidator.validate(brief)
validate(b) ==
    LET content_lower == Lower(content_to_check(b))
        forbidden == Matches(FORBIDDEN_KEYWORDS, content_lower)
        caution == Matches(CAUTION_KEYWORDS, content_lower)
        positive == Matches(POSITIVE_KEYWORDS, content_lower)
        safety_flags == [i \in 1..Len(forbidden) |-> safety_flag(forbidden[i])]
        warnings == [i \in 1..Len(caution) |-> warning(caution[i])]
        caution_count == Len(caution)
        positive_count == Len(positive)
        rating == RatingFor(Len(forbidden), caution_count)
        age == b.target_audience_age_range
        age_text == SplitFirst(age.v, "-")
    IN  IF ~IsStr(age) THEN Raised("AttributeError")
        ELSE IF ~IntParses(age_text) THEN Raised("ValueError")
        ELSE Returned(ContentSafetyCheck(
                rating # ContentRating.NOT_SUITABLE,
                rating,
                safety_flags,
                warnings,
                RatingRecommendations(Len(forbidden), caution_count)
                    \o PositiveRecommendations(positive_count)
                    \o AgeRecommendations(IntOf(age_text), caution_count)))

(***************************************************************************)
(* The clock and BriefGenerator._generate_brief_id.  An instant is a       *)
(* second of the minute 2026-01-01 00:00 UTC and a microsecond in it.      *)
(***************************************************************************)
Instant(second, microsecond) == [second |-> second, microsecond |-> microsecond]

Instants == {Instant(s, u) : s \in 0..MaxSecond, u \in 0..MaxMicrosecond}

\* instant a is before instant b
Before(a, b) ==
    \/ a.second < b.second
    \/ a.second = b.second /\ a.microsecond < b.microsecond

\* n in decimal, padded with zeros to the given width
Pad(n, width) ==
    LET digits == ToString(n)
    IN  SubSeq("000000", 1, width - Len(digits)) \o digits

\* datetime.strftime('%Y%m%d%H%M%S')
strftime(instant) == "202601010000" \o Pad(instant.second, 2)

\* datetime.isoformat(): the microseconds are left out when they are 0
isoformat(instant) ==
    "2026-01-01T00:00:" \o Pad(instant.second, 2)
        \o (IF instant.microsecond = 0 THEN ""
            ELSE "." \o Pad(instant.microsecond, 6))

\* hashlib.md5(title.encode()).hexdigest()[:8] of the titles of the model
MD5_PREFIXES ==
    << <<"", "d41d8cd9">>,
       <<"A brave rabbit learns to share", "2047118e">>,
       <<"the dragon was scared but brave", "bcdcf025">>,
       <<"they argue and fight", "372c0c1a">>,
       <<"the wolf chased and the fox was hurt, scared, and had to fight", "8e6390af">>,
       <<"angry yell, danger and risk", "317b7fe9">>,
       <<"hurt, scared, angry, fight, argue", "b93c7503">>,
       <<"The MONSTER has a Gun", "29023849">>,
       <<"a soldier studies", "682f775d">>,
       <<"learn, discover, explore, help, be kind and brave", "4e0e5540">>,
       <<"learn, discover, explore, help, be kind and brave: they argue and fight",
         "0b2f1aa2">>,
       <<"kind brave helpers learn to share, explore and discover a monster",
         "51f6f4dc">>,
       <<"The Garden", "31f437ff">>,
       <<"untitled", "61bfee27">>,
       <<"Stop ,] go", "6c0323b0">>,
       <<"Stop ] go", "ea10ea73">>,
       <<"Fox, name: Pip", "f181be67">>,
       <<"The angry, scared fox fights", "99e56575">>,
       <<"The Monster", "6e987c33">> >>

title_hash(title) ==
    MD5_PREFIXES[CHOOSE i \in DOMAIN MD5_PREFIXES : MD5_PREFIXES[i][1] = title][2]

\* BriefGenerator._generate_brief_id(title), called at the given instant
_generate_brief_id(title, instant) ==
    "brief_" \o strftime(instant) \o "_" \o title_hash(title)

(***************************************************************************)
(* BriefGenerator._build_brief_object and the defaults it falls back to.   *)
(***************************************************************************)
Min(a, b) == IF a < b THEN a ELSE b

\* `for x in value` raises TypeError unless value is a list, str or dict
IsIterable(x) == x.t \in {"list", "str", "dict"}

\* the values `for x in value` yields: the elements of a list, the
\* characters of a str, the keys of a dict
Iterate(x) ==
    CASE x.t = "list" -> x.v
      [] x.t = "str" -> [i \in 1..Len(x.v) |-> JStr(CharAt(x.v, i))]
      [] x.t = "dict" -> [i \in 1..Len(x.v) |-> JStr(x.v[i][1])]

\* `value[:9]` raises unless value is a list or a str
IsSliceable(x) == x.t \in {"list", "str"}

\* value[:10], a slice that keeps one entry more
FirstNine_Ten(x) == [t |-> x.t, v |-> SubSeq(x.v, 1, Min(10, Len(x.v)))]

\* value[:9]
FirstNine(x) == [t |-> x.t, v |-> SubSeq(x.v, 1, Min(9, Len(x.v)))]

Character(char_data) ==
    [name |-> Get(char_data, "name", JStr("Unknown")),
     age |-> Get(char_data, "age", JInt(5)),
     description |-> Get(char_data, "description", JStr("")),
     personality_traits |-> Get(char_data, "personality_traits", JList(<<>>)),
     role |-> Get(char_data, "role", JStr("character")),
     appearance |-> Get(char_data, "appearance", JStr("")),
     voice_characteristics |-> Get(char_data, "voice_characteristics", JNone),
     character_arc |-> Get(char_data, "character_arc", JNone)]

WorldBuilding(wb_data) ==
    [setting |-> Get(wb_data, "setting", JStr("Unknown")),
     time_period |-> Get(wb_data, "time_period", JStr("Present")),
     location_description |-> Get(wb_data, "location_description", JStr("")),
     cultural_elements |-> Get(wb_data, "cultural_elements", JList(<<>>)),
     technology_level |-> Get(wb_data, "technology_level", JStr("Modern")),
     environmental_details |-> Get(wb_data, "environmental_details", JStr("")),
     rules_of_world |-> Get(wb_data, "rules_of_world", JList(<<>>))]

\* ActTypeOf with the two tests in the other order
ActTypeOf_ConfrontationFirst(act_type_str) ==
    IF Contains(act_type_str, "confrontation") THEN ActType.CONFRONTATION
    ELSE IF Contains(act_type_str, "setup") THEN ActType.SETUP
    ELSE ActType.RESOLUTION

\* the act kind of a lower-cased act-type label
ActTypeOf(act_type_str) ==
    IF Contains(act_type_str, "setup") THEN ActType.SETUP
    ELSE IF Contains(act_type_str, "confrontation") THEN ActType.CONFRONTATION
    ELSE ActType.RESOLUTION

Act(act_data) ==
    [act_type |-> ActTypeOf(Lower(Get(act_data, "act_type", JStr("Setup")).v)),
     title |-> Get(act_data, "title", JStr("")),
     description |-> Get(act_data, "description", JStr("")),
     duration_seconds |-> Get(act_data, "duration_seconds", JInt(60)),
     key_plot_points |-> Get(act_data, "key_plot_points", JList(<<>>)),
     emotional_tone |-> Get(act_data, "emotional_tone", JStr(""))]

CameraDirection(cam_data) ==
    [type |-> Get(cam_data, "type", JStr("static")),
     description |-> Get(cam_data, "description", JStr("")),
     duration_seconds |-> Get(cam_data, "duration_seconds", JInt(5))]

\* ShotBreakdown with the camera's default duration used for the shot
ShotBreakdown_CameraDuration(shot_data, position) ==
    [shot_number |-> Get(shot_data, "shot_number", JInt(position)),
     duration_seconds |-> Get(shot_data, "duration_seconds", JInt(5)),
     scene_description |-> Get(shot_data, "scene_description", JStr("")),
     camera_direction |->
        CameraDirection(Get(shot_data, "camera_direction", JDict(<<>>))),
     narration |-> Get(shot_data, "narration", JStr("")),
     character_actions |-> Get(shot_data, "character_actions", JList(<<>>)),
     visual_elements |-> Get(shot_data, "visual_elements", JList(<<>>)),
     transitions |-> Get(shot_data, "transitions", JNone),
     sound_design |-> Get(shot_data, "sound_design", JNone)]

\* the shot appended when `shots` already holds position - 1 shots
ShotBreakdown(shot_data, position) ==
    [shot_number |-> Get(shot_data, "shot_number", JInt(position)),
     duration_seconds |-> Get(shot_data, "duration_seconds", JInt(20)),
     scene_description |-> Get(shot_data, "scene_description", JStr("")),
     camera_direction |->
        CameraDirection(Get(shot_data, "camera_direction", JDict(<<>>))),
     narration |-> Get(shot_data, "narration", JStr("")),
     character_actions |-> Get(shot_data, "character_actions", JList(<<>>)),
     visual_elements |-> Get(shot_data, "visual_elements", JList(<<>>)),
     transitions |-> Get(shot_data, "transitions", JNone),
     sound_design |-> Get(shot_data, "sound_design", JNone)]

_generate_default_acts ==
    << [act_type |-> ActType.SETUP,
        title |-> JStr("Introduction"),
        description |-> JStr("Introduce characters and setting"),
        duration_seconds |-> JInt(60),
        key_plot_points |-> JList(<<JStr("Character introduction"),
                                    JStr("Setting establishment")>>),
        emotional_tone |-> JStr("Warm and inviting")],
       [act_type |-> ActType.CONFRONTATION,
        title |-> JStr("Challenge"),
        description |-> JStr("Main conflict or challenge"),
        duration_seconds |-> JInt(60),
        key_plot_points |-> JList(<<JStr("Problem appears"),
                                    JStr("Characters respond")>>),
        emotional_tone |-> JStr("Engaging and dynamic")],
       [act_type |-> ActType.RESOLUTION,
        title |-> JStr("Resolution"),
        description |-> JStr("Resolution and learning"),
        duration_seconds |-> JInt(60),
        key_plot_points |-> JList(<<JStr("Problem solved"),
                                    JStr("Lesson learned")>>),
        emotional_tone |-> JStr("Satisfying and uplifting")] >>

DefaultShot(i) ==
    [shot_number |-> JInt(i),
     duration_seconds |-> JInt(20),
     scene_description |-> JStr("Scene " \o ToString(i)),
     camera_direction |-> [type |-> JStr("static"),
                           description |-> JStr("Static camera"),
                           duration_seconds |-> JInt(20)],
     narration |-> JStr(""),
     character_actions |-> JList(<<>>),
     visual_elements |-> JList(<<>>),
     transitions |-> JStr("Cut"),
     sound_design |-> JStr("Ambient sound")]

_generate_default_shots == [i \in 1..9 |-> DefaultShot(i)]

\* ActsOrDefault falling back whenever the source did not give three acts
ActsOrDefault_UnlessThree(three_act) ==
    IF Len(three_act) = 3 THEN three_act ELSE _generate_default_acts

\* `three_act if three_act else self._generate_default_acts()`
ActsOrDefault(three_act) ==
    IF three_act # <<>> THEN three_act ELSE _generate_default_acts

\* `shots if shots else self._generate_default_shots()`
ShotsOrDefault(shots) ==
    IF shots # <<>> THEN shots ELSE _generate_default_shots

\* the exception the character loop raises, "" if none: the value of
\* 'characters' must be iterable and every element must have .get
CharactersError(bd) ==
    LET cs == Get(bd, "characters", JList(<<>>))
    IN  IF ~IsIterable(cs) THEN "TypeError"
        ELSE IF \E i \in DOMAIN Iterate(cs) : ~IsDict(Iterate(cs)[i])
        THEN "AttributeError"
        ELSE ""

\* the exception the act loop raises, "" if none: every element must have
\* .get and its act_type must have .lower
ActsError(sd) ==
    LET as == Get(sd, "three_act_structure", JList(<<>>))
        bad(a) == ~IsDict(a) \/ ~IsStr(Get(a, "act_type", JStr("Setup")))
    IN  IF ~IsIterable(as) THEN "TypeError"
        ELSE IF \E i \in DOMAIN Iterate(as) : bad(Iterate(as)[i])
        THEN "AttributeError"
        ELSE ""

\* the exception the shot loop raises, "" if none: the value of
\* 'nine_shot_breakdown' must support [:9] (TypeError on CPython up to 3.11
\* for every other type), every element and its camera_direction must
\* have .get
ShotsError(sd) ==
    LET ss == Get(sd, "nine_shot_breakdown", JList(<<>>))
        bad(x) == ~IsDict(x) \/ ~IsDict(Get(x, "camera_direction", JDict(<<>>)))
    IN  IF ~IsSliceable(ss) THEN "TypeError"
        ELSE IF \E i \in DOMAIN Iterate(FirstNine(ss)) : bad(Iterate(FirstNine(ss))[i])
        THEN "AttributeError"
        ELSE ""

\* the first exception _build_brief_object raises, "" if it returns
BuildError(bd, sd) ==
    IF ~IsDict(bd) THEN "AttributeError"
    \* _generate_brief_id calls title.encode()
    ELSE IF ~IsStr(Get(bd, "title", JStr("untitled"))) THEN "AttributeError"
    ELSE IF CharactersError(bd) # "" THEN CharactersError(bd)
    ELSE IF ~IsDict(Get(bd, "world_building", JDict(<<>>))) THEN "AttributeError"
    ELSE IF ~IsDict(sd) THEN "AttributeError"
    ELSE IF ActsError(sd) # "" THEN ActsError(sd)
    ELSE ShotsError(sd)

\* the CreativeBrief that _build_brief_object constructs when nothing raises;
\* the three readings of the clock give the instant `now`
CreativeBrief(bd, sd) ==
    LET cs == Iterate(Get(bd, "characters", JList(<<>>)))
        as == Iterate(Get(sd, "three_act_structure", JList(<<>>)))
        ss == Iterate(FirstNine(Get(sd, "nine_shot_breakdown", JList(<<>>))))
        characters == [i \in 1..Len(cs) |-> Character(cs[i])]
        three_act == [i \in 1..Len(as) |-> Act(as[i])]
        shots == [i \in 1..Len(ss) |-> ShotBreakdown(ss[i], i)]
    IN  [brief_id |-> _generate_brief_id(Get(bd, "title", JStr("untitled")).v, now),
         title |-> Get(bd, "title", JStr("Untitled Story")),
         synopsis |-> Get(bd, "synopsis", JStr("")),
         target_audience_age_range |->
            Get(bd, "target_audience_age_range", JStr("4-8")),
         duration_seconds |-> Get(bd, "duration_seconds", JInt(180)),
         characters |-> characters,
         world_building |-> WorldBuilding(Get(bd, "world_building", JDict(<<>>))),
         three_act_structure |-> ActsOrDefault(three_act),
         nine_shot_breakdown |-> ShotsOrDefault(shots),
         themes |-> Get(bd, "themes", JList(<<>>)),
         moral_lessons |-> Get(bd, "moral_lessons", JList(<<>>)),
         visual_style |-> Get(bd, "visual_style", JStr("")),
         animation_style |-> Get(bd, "animation_style", JStr("")),
         music_style |-> Get(bd, "music_style", JStr("")),
         content_safety |->
            ContentSafetyCheck(TRUE, ContentRating.G, <<>>, <<>>, <<>>),
         generated_at |-> isoformat(now),
         model_used |-> "phi3.5",
         metadata |-> [generator_version |-> "1.0",
                       generation_timestamp |-> isoformat(now),
                       prompt_length |-> Len(Str(bd))]]

\* BriefGenerator._build_brief_object(brief_data, shots_data)
_build_brief_object(bd, sd) ==
    IF BuildError(bd, sd) # ""
    THEN Raised(BuildError(bd, sd))
    ELSE Returned(CreativeBrief(bd, sd))

(***************************************************************************)
(* json.loads, as json.decoder and json.scanner decode a text.  Positions  *)
(* are Python's, counted from 0.  An outcome is the decoded value and the  *)
(* position after it, or the message and position of the JSONDecodeError.  *)
(* The texts of the model hold no \b or \u escape, NaN or Infinity; a      *)
(* number with a fraction or an exponent is kept as its literal.           *)
(***************************************************************************)
Hit(val, end) == [msg |-> "", val |-> val, end |-> end]
Miss(msg, pos) == [msg |-> msg, val |-> NoValue, end |-> pos]

\* s[idx:idx + 1]
At(s, idx) == IF idx >= 0 /\ idx < Len(s) THEN SubSeq(s, idx + 1, idx + 1) ELSE ""

\* s[idx:idx + n]
SubStr(s, idx, n) ==
    IF idx >= Len(s) THEN "" ELSE SubSeq(s, idx + 1, Min(Len(s), idx + n))

RECURSIVE SkipWs(_, _)
\* WHITESPACE.match(s, idx).end(): the position after the run of " \t\n\r"
SkipWs(s, idx) ==
    IF At(s, idx) \in {" ", "\t", "\n", "\r"} THEN SkipWs(s, idx + 1) ELSE idx

\* the characters that end a chunk of a string literal: the quote, the
\* backslash and the control characters
EndsChunk(c) == c \in {"\"", "\\", "\t", "\n", "\r", "\f"}

RECURSIVE FirstIn(_, _, _)
\* the first position in lo..hi-1 whose character ends a chunk, hi if none
FirstIn(s, lo, hi) ==
    IF lo >= hi THEN hi
    ELSE IF hi = lo + 1 THEN (IF EndsChunk(At(s, lo)) THEN lo ELSE hi)
    ELSE LET mid == (lo + hi) \div 2
             l == FirstIn(s, lo, mid)
         IN  IF l < mid THEN l ELSE FirstIn(s, mid, hi)

RECURSIVE ChunkEnd(_, _, _)
\* STRINGCHUNK.match(s, idx): the first position from idx on whose character
\* ends a chunk, len(s) if none; searched in windows of doubling width
ChunkEnd(s, idx, width) ==
    LET hi == Min(Len(s), idx + width)
        found == FirstIn(s, idx, hi)
    IN  IF found < hi \/ hi = Len(s) THEN found ELSE ChunkEnd(s, hi, 2 * width)

\* the escapes \" \\ \/ \n \r \t \f and the characters they stand for
EscapeLetters == "\"\\/nrtf"
EscapeValues == "\"\\/\n\r\t\f"

RECURSIVE ScanChunks(_, _, _, _)
\* the string literal from idx on, content being what the chunks before idx
\* hold and begin the position of the opening quote
ScanChunks(s, idx, begin, content) ==
    LET Chunk(end, chunk) ==
            LET terminator == At(s, end)
                esc == At(s, end + 1)
            IN  IF terminator = "" THEN Miss("Unterminated string starting at", begin)
                ELSE IF terminator = "\"" THEN Hit(JStr(chunk), end + 1)
                ELSE IF terminator # "\\" THEN Miss("Invalid control character at", end)
                ELSE IF esc = "" THEN Miss("Unterminated string starting at", begin)
                ELSE IF ~HasChar(EscapeLetters, esc) THEN Miss("Invalid \\escape", end)
                ELSE ScanChunks(s, end + 2, begin,
                                chunk \o CharAt(EscapeValues, IndexIn(EscapeLetters, esc)))
        Upto(end) == Chunk(end, content \o SubStr(s, idx, end - idx))
    IN  Upto(ChunkEnd(s, idx, 8))

\* scanstring(s, end), end being the position after the opening quote
scanstring(s, end) == ScanChunks(s, end, end - 1, "")

RECURSIVE DigitsEnd(_, _)
\* the position after the run of digits that starts at idx
DigitsEnd(s, idx) == IF At(s, idx) # "" /\ IsDigit(At(s, idx)) THEN DigitsEnd(s, idx + 1) ELSE idx

\* NUMBER_RE.match(s, idx): the integer part -?(0|[1-9]\d*), idx if none
IntegerEnd(s, idx) ==
    LET p == IF At(s, idx) = "-" THEN idx + 1 ELSE idx
    IN  IF At(s, p) = "0" THEN p + 1
        ELSE IF At(s, p) # "" /\ IsDigit(At(s, p)) THEN DigitsEnd(s, p)
        ELSE idx

\* the optional fraction (\.\d+)? after position e
FractionEnd(s, e) ==
    IF At(s, e) = "." /\ DigitsEnd(s, e + 1) > e + 1 THEN DigitsEnd(s, e + 1) ELSE e

\* the optional exponent ([eE][-+]?\d+)? after position e
ExponentEnd(s, e) ==
    LET p == IF At(s, e + 1) \in {"-", "+"} THEN e + 2 ELSE e + 1
    IN  IF At(s, e) \in {"e", "E"} /\ DigitsEnd(s, p) > p THEN DigitsEnd(s, p) ELSE e

\* the number matched at idx, a Miss if none is
ScanNumber(s, idx) ==
    LET Literal(e, f) ==
            IF e = idx THEN Miss("Expecting value", idx)
            ELSE IF f = e THEN Hit(JInt(IntOf(SubStr(s, idx, e - idx))), e)
            ELSE Hit(JFloat(SubStr(s, idx, f - idx)), f)
        Integer(e) == Literal(e, ExponentEnd(s, FractionEnd(s, e)))
    IN  Integer(IntegerEnd(s, idx))

\* dict[key] = value: a key already held keeps its place and takes the value
SetItem(pairs, key, value) ==
    IF \E i \in DOMAIN pairs : pairs[i][1] = key
    THEN [i \in DOMAIN pairs |-> IF pairs[i][1] = key THEN <<key, value>> ELSE pairs[i]]
    ELSE Append(pairs, <<key, value>>)

RECURSIVE scan_once(_, _)
RECURSIVE ObjectMembers(_, _, _)
RECURSIVE ArrayItems(_, _, _)

\* the members of an object from the position after the opening quote of a
\* key on, pairs being the members decoded so far
ObjectMembers(s, end, pairs) ==
    LET Rest(held, after, next) ==
            IF At(s, after) = "}" THEN Hit(JDict(held), after + 1)
            ELSE IF At(s, after) # "," THEN Miss("Expecting ',' delimiter", after)
            ELSE IF At(s, next) # "\""
            THEN Miss("Expecting property name enclosed in double quotes", next)
            ELSE ObjectMembers(s, next + 1, held)
        Delimiter(held, after) == Rest(held, after, SkipWs(s, after + 1))
        Member(key, value) ==
            IF value.msg # "" THEN value
            ELSE Delimiter(SetItem(pairs, key.val.v, value.val), SkipWs(s, value.end))
        Colon(key, colon) ==
            IF At(s, colon) # ":" THEN Miss("Expecting ':' delimiter", colon)
            ELSE Member(key, scan_once(s, SkipWs(s, colon + 1)))
        Key(key) == IF key.msg # "" THEN key ELSE Colon(key, SkipWs(s, key.end))
    IN  Key(scanstring(s, end))

\* JSONObject(s, end), end being the position after the opening brace
JSONObject(s, end) ==
    LET First(first) ==
            IF At(s, first) = "}" THEN Hit(JDict(<<>>), first + 1)
            ELSE IF At(s, first) # "\""
            THEN Miss("Expecting property name enclosed in double quotes", first)
            ELSE ObjectMembers(s, first + 1, <<>>)
    IN  First(SkipWs(s, end))

\* the items of an array from position end on, values being those decoded
ArrayItems(s, end, values) ==
    LET Rest(held, after) ==
            IF At(s, after) = "]" THEN Hit(JList(held), after + 1)
            ELSE IF At(s, after) # "," THEN Miss("Expecting ',' delimiter", after)
            ELSE ArrayItems(s, SkipWs(s, after + 1), held)
        Item(value) ==
            IF value.msg # "" THEN value
            ELSE Rest(Append(values, value.val), SkipWs(s, value.end))
    IN  Item(scan_once(s, end))

\* JSONArray(s, end), end being the position after the opening bracket
JSONArray(s, end) ==
    LET First(first) ==
            IF At(s, first) = "]" THEN Hit(JList(<<>>), first + 1)
            ELSE ArrayItems(s, first, <<>>)
    IN  First(SkipWs(s, end))

\* scan_once(s, idx): the value that starts at idx
scan_once(s, idx) ==
    LET nextchar == At(s, idx)
    IN  IF nextchar = "\"" THEN scanstring(s, idx + 1)
        ELSE IF nextchar = "{" THEN JSONObject(s, idx + 1)
        ELSE IF nextchar = "[" THEN JSONArray(s, idx + 1)
        ELSE IF SubStr(s, idx, 4) = "null" THEN Hit(JNone, idx + 4)
        ELSE IF SubStr(s, idx, 4) = "true" THEN Hit(JBool(TRUE), idx + 4)
        ELSE IF SubStr(s, idx, 5) = "false" THEN Hit(JBool(FALSE), idx + 5)
        ELSE ScanNumber(s, idx)

\* json.loads(s): the value of the whole text
json_loads(s) ==
    LET Whole(obj, end) ==
            IF end # Len(s) THEN Miss("Extra data", end) ELSE obj
        Decoded(obj) == IF obj.msg # "" THEN obj ELSE Whole(obj, SkipWs(s, obj.end))
    IN  Decoded(scan_once(s, SkipWs(s, 0)))

(***************************************************************************)
(* JSONValidator.validate_and_repair and its two re.sub substitutions.     *)
(***************************************************************************)
\* \s of the re module
IsSpace(c) == c \in {" ", "\t", "\n", "\r", "\f"}

RECURSIVE SpaceEnd(_, _)
\* the position after the run \s* that starts at idx
SpaceEnd(s, idx) == IF IsSpace(At(s, idx)) THEN SpaceEnd(s, idx + 1) ELSE idx

RECURSIVE Concat(_, _, _)
\* the texts parts[lo], ..., parts[hi] joined
Concat(parts, lo, hi) ==
    IF lo > hi THEN ""
    ELSE IF lo = hi THEN parts[lo]
    ELSE LET mid == (lo + hi) \div 2
         IN  Concat(parts, lo, mid) \o Concat(parts, mid + 1, hi)

\* the pattern ,(\s*[}\]]) matches at idx: a comma, then space, then a
\* closing brace or bracket
TrailingCommaAt(s, idx) ==
    At(s, idx) = "," /\ At(s, SpaceEnd(s, idx + 1)) \in {"}", "]"}

\* re.sub(r',(\s*[}\]])', r'\1', s): every matched comma is dropped
FixTrailingCommas(s) ==
    Concat([i \in 1..Len(s) |-> IF TrailingCommaAt(s, i - 1) THEN "" ELSE CharAt(s, i)],
           1, Len(s))

\* [a-zA-Z_] and [a-zA-Z0-9_]
IsNameStart(c) == c # "" /\ (IsAlpha(c) \/ c = "_")
IsNameChar(c) == c # "" /\ (IsAlpha(c) \/ IsDigit(c) \/ c = "_")

RECURSIVE NameEnd(_, _)
\* the position after the run [a-zA-Z0-9_]* that starts at idx
NameEnd(s, idx) == IF IsNameChar(At(s, idx)) THEN NameEnd(s, idx + 1) ELSE idx

\* the pattern ([{,]\s*)([a-zA-Z_][a-zA-Z0-9_]*)(\s*:) matches at idx: an
\* opening brace or a comma, space, a name, space, a colon
BareKeyAt(s, idx) ==
    LET from == SpaceEnd(s, idx + 1)
    IN  /\ At(s, idx) \in {"{", ","}
        /\ IsNameStart(At(s, from))
        /\ At(s, SpaceEnd(s, NameEnd(s, from))) = ":"

\* re.sub(r'([{,]\s*)([a-zA-Z_][a-zA-Z0-9_]*)(\s*:)', r'\1"\2"\3', s): a
\* quote is put before and after the name of every match (two matches never
\* overlap: a match holds no brace or comma after its first character)
FixMissingQuotes(s) ==
    LET starts == {idx \in 0..(Len(s) - 1) : BareKeyAt(s, idx)}
        opens == {SpaceEnd(s, idx + 1) : idx \in starts}
        closes == {NameEnd(s, from) : from \in opens}
    IN  Concat([i \in 1..Len(s) |->
                    (IF (i - 1) \in opens \cup closes THEN "\"" ELSE "") \o CharAt(s, i)],
               1, Len(s))

\* what a call of validate_and_repair did: the exception it raised ("" if it
\* returned), the value it returned, the texts it passed to json.loads in
\* turn, and the diagnostic (message and position) of the error it raised
Outcome(exc, val, texts, diagnostic) ==
    [exc |-> exc, val |-> val, loads |-> texts, diag |-> diagnostic]

Diagnostic(miss) == [msg |-> miss.msg, pos |-> miss.end]

\* the procedure that retries the parse after the first substitution and
\* applies the second one only if that retry fails
validate_and_repair_RetryAfterEach(json_str) ==
    LET Third(texts, third) ==
            IF third.msg = "" THEN Outcome("", third.val, texts, NoValue)
            ELSE Outcome("JSONDecodeError", NoValue, texts, Diagnostic(third))
        Quoted(uncommaed, repaired) ==
            Third(<<json_str, uncommaed, repaired>>, json_loads(repaired))
        Second(uncommaed, second) ==
            IF second.msg = "" THEN Outcome("", second.val, <<json_str, uncommaed>>, NoValue)
            ELSE Quoted(uncommaed, FixMissingQuotes(uncommaed))
        Uncommaed(uncommaed) == Second(uncommaed, json_loads(uncommaed))
        Strict(strict) ==
            IF strict.msg = "" THEN Outcome("", strict.val, <<json_str>>, NoValue)
            ELSE Uncommaed(FixTrailingCommas(json_str))
    IN  Strict(json_loads(json_str))

\* JSONValidator.validate_and_repair(json_str); the bare `raise` of the
\* inner handler re-raises the error of the second json.loads
validate_and_repair(json_str) ==
    LET Retry(repaired, retry) ==
            IF retry.msg = "" THEN Outcome("", retry.val, <<json_str, repaired>>, NoValue)
            ELSE Outcome("JSONDecodeError", NoValue, <<json_str, repaired>>,
                         Diagnostic(retry))
        Repaired(repaired) == Retry(repaired, json_loads(repaired))
        Strict(strict) ==
            IF strict.msg = "" THEN Outcome("", strict.val, <<json_str>>, NoValue)
            ELSE Repaired(FixMissingQuotes(FixTrailingCommas(json_str)))
    IN  Strict(json_loads(json_str))

(***************************************************************************)
(* The exporters: CreativeBrief.to_dict with the to_dict of its parts,     *)
(* json.dump(..., indent=2), and the errors of export_brief_to_markdown.   *)
(***************************************************************************)
Strings(xs) == JList([i \in DOMAIN xs |-> JStr(xs[i])])

Character_to_dict(c) ==
    JDict(<< <<"name", c.name>>, <<"age", c.age>>,
             <<"description", c.description>>,
             <<"personality_traits", c.personality_traits>>,
             <<"role", c.role>>, <<"appearance", c.appearance>>,
             <<"voice_characteristics", c.voice_characteristics>>,
             <<"character_arc", c.character_arc>> >>)

WorldBuilding_to_dict(w) ==
    JDict(<< <<"setting", w.setting>>, <<"time_period", w.time_period>>,
             <<"location_description", w.location_description>>,
             <<"cultural_elements", w.cultural_elements>>,
             <<"technology_level", w.technology_level>>,
             <<"environmental_details", w.environmental_details>>,
             <<"rules_of_world", w.rules_of_world>> >>)

ShotBreakdown_to_dict(shot) ==
    JDict(<< <<"shot_number", shot.shot_number>>,
             <<"duration_seconds", shot.duration_seconds>>,
             <<"scene_description", shot.scene_description>>,
             <<"camera_direction",
               JDict(<< <<"type", shot.camera_direction.type>>,
                        <<"description", shot.camera_direction.description>>,
                        <<"duration_seconds",
                          shot.camera_direction.duration_seconds>> >>)>>,
             <<"narration", shot.narration>>,
             <<"character_actions", shot.character_actions>>,
             <<"visual_elements", shot.visual_elements>>,
             <<"transitions", shot.transitions>>,
             <<"sound_design", shot.sound_design>> >>)

Act_to_dict(act) ==
    JDict(<< <<"act_type", JStr(act.act_type)>>, <<"title", act.title>>,
             <<"description", act.description>>,
             <<"duration_seconds", act.duration_seconds>>,
             <<"key_plot_points", act.key_plot_points>>,
             <<"emotional_tone", act.emotional_tone>> >>)

ContentSafetyCheck_to_dict(check) ==
    JDict(<< <<"is_safe", JBool(check.is_safe)>>,
             <<"rating", JStr(check.rating)>>,
             <<"safety_flags", Strings(check.safety_flags)>>,
             <<"warnings", Strings(check.warnings)>>,
             <<"recommendations", Strings(check.recommendations)>> >>)

\* CreativeBrief.to_dict()
to_dict(b) ==
    JDict(<< <<"brief_id", JStr(b.brief_id)>>,
             <<"title", b.title>>,
             <<"synopsis", b.synopsis>>,
             <<"target_audience_age_range", b.target_audience_age_range>>,
             <<"duration_seconds", b.duration_seconds>>,
             <<"characters",
               JList([i \in DOMAIN b.characters |-> Character_to_dict(b.characters[i])])>>,
             <<"world_building", WorldBuilding_to_dict(b.world_building)>>,
             <<"three_act_structure",
               JList([i \in DOMAIN b.three_act_structure |->
                        Act_to_dict(b.three_act_structure[i])])>>,
             <<"nine_shot_breakdown",
               JList([i \in DOMAIN b.nine_shot_breakdown |->
                        ShotBreakdown_to_dict(b.nine_shot_breakdown[i])])>>,
             <<"themes", b.themes>>,
             <<"moral_lessons", b.moral_lessons>>,
             <<"visual_style", b.visual_style>>,
             <<"animation_style", b.animation_style>>,
             <<"music_style", b.music_style>>,
             <<"content_safety", ContentSafetyCheck_to_dict(b.content_safety)>>,
             <<"generated_at", JStr(b.generated_at)>>,
             <<"model_used", JStr(b.model_used)>>,
             <<"metadata",
               JDict(<< <<"generator_version", JStr(b.metadata.generator_version)>>,
                        <<"generation_timestamp",
                          JStr(b.metadata.generation_timestamp)>>,
                        <<"prompt_length", JInt(b.metadata.prompt_length)>> >>)>> >>)

RECURSIVE EscapeJson(_)
\* json.encoder.py_encode_basestring_ascii: the text of a str between its
\* quotes (the texts of the model are ASCII)
EscapeJson(s) ==
    IF Len(s) <= 1
    THEN CASE s = "\"" -> "\\\""
           [] s = "\\" -> "\\\\"
           [] s = "\n" -> "\\n"
           [] s = "\r" -> "\\r"
           [] s = "\t" -> "\\t"
           [] s = "\f" -> "\\f"
           [] OTHER -> s
    ELSE EscapeJson(Left(s)) \o EscapeJson(Right(s))

\* the newline and the indentation of a line at the given nesting level
NewLine(level) == "\n" \o SubSeq("                    ", 1, 2 * level)

RECURSIVE Encode(_, _)
RECURSIVE EncodeItems(_, _)
RECURSIVE EncodePairs(_, _)
\* JSONEncoder(indent=2).iterencode of a value at the given nesting level
Encode(x, level) ==
    CASE x.t = "str" -> "\"" \o EscapeJson(x.v) \o "\""
      [] x.t = "int" -> ToString(x.v)
      [] x.t = "NoneType" -> "null"
      [] x.t = "bool" -> IF x.v THEN "true" ELSE "false"
      [] x.t = "list" ->
            IF x.v = <<>> THEN "[]"
            ELSE "[" \o EncodeItems(x.v, level + 1) \o NewLine(level) \o "]"
      [] x.t = "dict" ->
            IF x.v = <<>> THEN "{}"
            ELSE "{" \o EncodePairs(x.v, level + 1) \o NewLine(level) \o "}"

EncodeItems(xs, level) ==
    IF xs = <<>> THEN ""
    ELSE NewLine(level) \o Encode(Head(xs), level)
            \o (IF Len(xs) > 1 THEN "," ELSE "") \o EncodeItems(Tail(xs), level)

EncodePairs(kvs, level) ==
    IF kvs = <<>> THEN ""
    ELSE NewLine(level) \o "\"" \o EscapeJson(Head(kvs)[1]) \o "\": "
            \o Encode(Head(kvs)[2], level)
            \o (IF Len(kvs) > 1 THEN "," ELSE "") \o EncodePairs(Tail(kvs), level)

\* the text json.dump(obj, f, indent=2) writes
json_dump(obj) == Encode(obj, 0)

\* ', '.join(value) raises TypeError unless value is an iterable of str
JoinError(x) ==
    IF IsIterable(x) /\ \A i \in DOMAIN Iterate(x) : IsStr(Iterate(x)[i])
    THEN "" ELSE "TypeError"

\* `for item in value` raises TypeError unless value is iterable
LoopError(x) == IF IsIterable(x) THEN "" ELSE "TypeError"

\* value.upper() raises AttributeError unless value is a str
UpperError(x) == IF IsStr(x) THEN "" ELSE "AttributeError"

\* the first exception export_brief_to_markdown raises while it makes the
\* text, "" if it writes the file: the sections are made in the order
\* characters, world, themes and lessons, acts, shots
MarkdownError(b) ==
    LET shots == b.nine_shot_breakdown
        attempts ==
            [i \in DOMAIN b.characters |-> JoinError(b.characters[i].personality_traits)]
            \o <<JoinError(b.world_building.cultural_elements),
                 LoopError(b.world_building.rules_of_world),
                 JoinError(b.themes),
                 LoopError(b.moral_lessons)>>
            \o [i \in DOMAIN b.three_act_structure |->
                    LoopError(b.three_act_structure[i].key_plot_points)]
            \o [k \in 1..(3 * Len(shots)) |->
                    LET shot == shots[(k + 2) \div 3]
                    IN  CASE k % 3 = 1 -> UpperError(shot.camera_direction.type)
                          [] k % 3 = 2 -> LoopError(shot.character_actions)
                          [] OTHER -> LoopError(shot.visual_elements)]
        raised == SelectSeq(attempts, LAMBDA e : e # "")
    IN  IF raised = <<>> THEN "" ELSE Head(raised)

(***************************************************************************)
(* The blobs the text-generation service may answer with, after parsing.   *)
(* The prompts of _generate_content give the expected shape; the service   *)
(* may leave fields out, mistype them, or return any other JSON value.     *)
(***************************************************************************)
Absent == [t |-> "absent", v |-> 0]

\* a dict of the given pairs, leaving out the pairs whose value is Absent
Obj(kvs) == JDict(SelectSeq(kvs, LAMBDA kv : kv[2] # Absent))

\* the dict d with key k set to x, as json.loads builds it when the key is
\* given another value
WithKey(d, k, x) ==
    IF HasKey(d, k)
    THEN JDict([i \in DOMAIN d.v |-> IF d.v[i][1] = k THEN <<k, x>> ELSE d.v[i]])
    ELSE JDict(Append(d.v, <<k, x>>))

\* texts for the field under test: none, positive, caution (1 to 5 keywords),
\* forbidden (plain, upper-case, inside a longer word), and mixtures
Texts ==
    {"",
     "A brave rabbit learns to share",
     "the dragon was scared but brave",
     "they argue and fight",
     "the wolf chased and the fox was hurt, scared, and had to fight",
     "angry yell, danger and risk",
     "hurt, scared, angry, fight, argue",
     "The MONSTER has a Gun",
     "a soldier studies",
     "learn, discover, explore, help, be kind and brave",
     "learn, discover, explore, help, be kind and brave: they argue and fight",
     "kind brave helpers learn to share, explore and discover a monster"}

\* the texts tried in every scanned field: forbidden, one and three caution
\* keywords, a forbidden keyword inside a longer word
FieldTexts ==
    {"The MONSTER has a Gun",
     "the dragon was scared but brave",
     "the wolf chased and the fox was hurt, scared, and had to fight",
     "a soldier studies"}

\* the fields of the main blob that take the text under test
MainFields == {"title", "synopsis", "themes", "moral_lessons", "visual_style",
               "animation_style", "music_style", "description",
               "location_description"}

AgeRanges == {JStr("4-8"), JStr("6-10"), JStr("5"), JStr(" 3 - 6"),
              JStr("all ages"), JStr(""), JInt(6), Absent}

Pick(field, hot, text, other) == IF field = hot THEN text ELSE other

\* the main blob of the 'creative_brief' prompt, with `text` in field `hot`
MainBlob(hot, text, age) ==
    Obj(<< <<"title", JStr(Pick("title", hot, text, "The Garden"))>>,
           <<"synopsis", JStr(Pick("synopsis", hot, text, "A rabbit finds a garden"))>>,
           <<"target_audience_age_range", age>>,
           <<"duration_seconds", JInt(180)>>,
           <<"characters", JList(<<
                Obj(<< <<"name", JStr("Pip")>>,
                       <<"age", JInt(7)>>,
                       <<"description",
                         JStr(Pick("description", hot, text, "a small white rabbit"))>>,
                       <<"personality_traits", JList(<<JStr("curious")>>)>>,
                       <<"role", JStr("protagonist")>>,
                       <<"appearance", JStr("white fur")>> >>) >>)>>,
           <<"world_building",
             Obj(<< <<"setting", JStr("Meadow")>>,
                    <<"location_description",
                      JStr(Pick("location_description", hot, text, "a sunny meadow"))>>,
                    <<"rules_of_world", JList(<<>>)>> >>)>>,
           <<"themes", JList(<<JStr("nature"),
                               JStr(Pick("themes", hot, text, "seasons"))>>)>>,
           <<"moral_lessons",
             JList(<<JStr(Pick("moral_lessons", hot, text, "patience"))>>)>>,
           <<"visual_style", JStr(Pick("visual_style", hot, text, "soft watercolor"))>>,
           <<"animation_style", JStr(Pick("animation_style", hot, text, "2D cartoon"))>>,
           <<"music_style", JStr(Pick("music_style", hot, text, "gentle piano"))>> >>)

ActLabels == <<"Setup", "Rising CONFRONTATION", "Resolution", "Epilogue", "setup again">>

\* act entry i of the 'shots_breakdown' prompt; the bare form gives a title only
ActEntry(i, form) ==
    Obj(<< <<"act_type", IF form = "bare" THEN Absent
                         ELSE JStr(ActLabels[((i - 1) % Len(ActLabels)) + 1])>>,
           <<"title", JStr("Act " \o ToString(i))>>,
           <<"description", IF form = "bare" THEN Absent ELSE JStr("It begins")>>,
           <<"duration_seconds", IF form = "bare" THEN Absent ELSE JInt(45)>>,
           <<"key_plot_points", IF form = "bare" THEN Absent ELSE JList(<<JStr("hop")>>)>>,
           <<"emotional_tone", IF form = "bare" THEN Absent ELSE JStr("calm")>> >>)

\* shot entry i of the 'shots_breakdown' prompt: the full form gives every
\* field, the bare form a scene and a narration only, the mixed form
\* alternates and gives a camera_direction with a description only
ShotEntry(i, form, narration) ==
    LET full == form = "full" \/ (form = "mixed" /\ i % 2 = 0)
    IN  Obj(<< <<"shot_number", IF full THEN JInt(100 + i) ELSE Absent>>,
               <<"duration_seconds", IF full THEN JInt(15) ELSE Absent>>,
               <<"scene_description", JStr("Scene for shot " \o ToString(i))>>,
               <<"camera_direction",
                 IF full THEN Obj(<< <<"type", JStr("pan")>>,
                                     <<"description", JStr("Slow pan")>>,
                                     <<"duration_seconds", JInt(4)>> >>)
                 ELSE IF form = "mixed"
                      THEN Obj(<< <<"description", JStr("Hold")>> >>)
                      ELSE Absent>>,
               <<"narration", JStr(narration)>>,
               <<"character_actions", IF full THEN JList(<<JStr("hop")>>) ELSE Absent>>,
               <<"visual_elements", IF full THEN JList(<<JStr("tree")>>) ELSE Absent>>,
               <<"transitions", IF full THEN JStr("Fade") ELSE Absent>>,
               <<"sound_design", IF full THEN JStr("Birdsong") ELSE Absent>> >>)

Forms == {"full", "bare", "mixed"}

\* the shots blob with nacts act entries and nshots shot entries; the first
\* shot narrates `text`, the others a neutral sentence
ShotsBlob(nacts, nshots, form, text) ==
    Obj(<< <<"three_act_structure",
             JList([i \in 1..nacts |-> ActEntry(i, form)])>>,
           <<"nine_shot_breakdown",
             JList([i \in 1..nshots |->
                      ShotEntry(i, form, IF i = 1 THEN text ELSE "Pip hops along")])>> >>)

GoodMain == MainBlob("title", "The Garden", JStr("4-8"))
GoodShots == ShotsBlob(3, 9, "full", "Once upon a time")

\* main blobs that are not the object the prompt asks for, or that hold a
\* value of another type in a field
OddMains ==
    {JList(<<>>), JList(<<GoodMain>>), JStr("The Garden"), JInt(1), JNone,
     JDict(<<>>),
     WithKey(GoodMain, "title", JInt(5)),
     WithKey(GoodMain, "title", JNone),
     WithKey(GoodMain, "synopsis", JInt(5)),
     WithKey(GoodMain, "themes", JStr("they argue and fight")),
     WithKey(GoodMain, "themes", JNone),
     WithKey(GoodMain, "characters", JNone),
     WithKey(GoodMain, "characters", JInt(2)),
     WithKey(GoodMain, "characters", JStr("")),
     WithKey(GoodMain, "characters", JStr("Pip")),
     WithKey(GoodMain, "characters", JList(<<JStr("Pip")>>)),
     WithKey(GoodMain, "characters", JList(<<JDict(<<>>), JNone>>)),
     WithKey(GoodMain, "characters", JList(<<JDict(<<>>)>>)),
     WithKey(GoodMain, "characters", JDict(<<>>)),
     WithKey(GoodMain, "characters", JDict(<< <<"name", JStr("Pip")>> >>)),
     WithKey(GoodMain, "world_building", JStr("a sunny meadow")),
     WithKey(GoodMain, "world_building", JNone),
     WithKey(GoodMain, "world_building", JList(<<>>)),
     WithKey(GoodMain, "world_building", JDict(<<>>))}

\* shots blobs that are not the object the prompt asks for, or that hold a
\* value of another type in a field
OddShots ==
    {JList(<<>>), JStr("nine shots"), JInt(9), JNone, JDict(<<>>),
     WithKey(GoodShots, "three_act_structure", JNone),
     WithKey(GoodShots, "three_act_structure", JStr("")),
     WithKey(GoodShots, "three_act_structure", JDict(<<>>)),
     WithKey(GoodShots, "three_act_structure", JList(<<JStr("Setup")>>)),
     WithKey(GoodShots, "three_act_structure",
             JList(<<Obj(<< <<"act_type", JInt(1)>> >>)>>)),
     WithKey(GoodShots, "three_act_structure",
             JList(<<Obj(<< <<"act_type", JNone>> >>)>>)),
     WithKey(GoodShots, "three_act_structure",
             JList(<<Obj(<< <<"act_type", JStr("")>> >>)>>)),
     WithKey(GoodShots, "nine_shot_breakdown", JNone),
     WithKey(GoodShots, "nine_shot_breakdown", JInt(9)),
     WithKey(GoodShots, "nine_shot_breakdown", JStr("")),
     WithKey(GoodShots, "nine_shot_breakdown", JStr("shots")),
     WithKey(GoodShots, "nine_shot_breakdown", JDict(<<>>)),
     WithKey(GoodShots, "nine_shot_breakdown", JList(<<JInt(1)>>)),
     WithKey(GoodShots, "nine_shot_breakdown",
             JList(<<Obj(<< <<"camera_direction", JStr("pan")>> >>)>>)),
     WithKey(GoodShots, "nine_shot_breakdown",
             JList(<<Obj(<< <<"camera_direction", JNone>> >>)>>)),
     WithKey(GoodShots, "nine_shot_breakdown",
             JList(<<Obj(<< <<"transitions", JNone>>, <<"shot_number", JStr("one")>> >>)>>))}

\* a shots blob whose acts carry labels of every kind: both words, one
\* word in either case, another word, the empty text, and no label
LabelledShots ==
    WithKey(GoodShots, "three_act_structure",
            JList(<<Obj(<< <<"act_type", JStr("The Confrontation SETUP")>>,
                           <<"title", JStr("Both")>> >>),
                    Obj(<< <<"act_type", JStr("confrontation!")>>,
                           <<"title", JStr("One")>> >>),
                    Obj(<< <<"act_type", JStr("Finale")>>,
                           <<"title", JStr("Other")>> >>),
                    Obj(<< <<"act_type", JStr("")>>,
                           <<"title", JStr("Empty")>> >>),
                    Obj(<< <<"title", JStr("None")>> >>)>>))

\* the numbers of act and shot entries tried: each number of acts with two
\* shots, each number of shots with three acts, and neither acts nor shots
Sizes ==
    {<<na, 2>> : na \in 0..MaxActs} \cup {<<3, ns>> : ns \in 0..MaxShots}
    \cup {<<0, 0>>}

\* the pairs <<brief_data, shots_data>> the model runs on: a text in each
\* field in turn, each text with each age range, each number and form of
\* acts and shots, and the odd blobs
Inputs ==
    {<<MainBlob(f, x, JStr("4-8")), GoodShots>> : f \in MainFields, x \in FieldTexts}
    \cup {<<GoodMain, ShotsBlob(3, 9, "full", x)>> : x \in FieldTexts}
    \cup {<<MainBlob("title", x, a), GoodShots>> : x \in Texts, a \in AgeRanges}
    \cup {<<GoodMain, ShotsBlob(n[1], n[2], f, "Once upon a time")>> :
        n \in Sizes, f \in Forms}
    \cup {<<m, GoodShots>> : m \in OddMains}
    \cup {<<GoodMain, x>> : x \in OddShots}
    \cup {<<GoodMain, LabelledShots>>}

(***************************************************************************)
(* The texts the text-generation service may answer with.                  *)
(***************************************************************************)
\* main blobs with @ at the places before a closing brace or bracket where
\* the service may put a comma
MainTemplates ==
    {"{\"title\": \"The Garden\", \"themes\": [\"sharing\", \"care\"@]@}",
     "{\"title\": \"Stop ,] go\", \"themes\": [\"a\"@]@}",
     "{\"title\": \"Fox, name: Pip\"@}"}

\* shots blobs with such places
ShotsTemplates ==
    {"{\"nine_shot_breakdown\": [{\"shot_number\": 7, \"narration\": \"Hi\"@}@]@}",
     "{\"nine_shot_breakdown\": [{\"narration\": \"wait, stop: go\"@}]}"}

\* other answers to the creative_brief prompt: well-formed, with unquoted
\* keys, with both defects, beyond repair, empty, not an object, with caution
\* and forbidden keywords, with an age range that is no number, with a null list
OtherMainContents ==
    {"{\"title\": \"The Garden\", \"target_audience_age_range\": \"4-8\"}",
     "{title: \"The Garden\", synopsis: \"A fox is scared\"}",
     "{title: \"The Garden\",}",
     "{title: \"The Garden\"} extra",
     "{\"title\": \"The Garden\"",
     "",
     "[]",
     "{\"title\": \"The angry, scared fox fights\", \"target_audience_age_range\": \"3-6\"}",
     "{\"title\": \"The Monster\", \"target_audience_age_range\": \"all ages\"}",
     "{\"title\": \"The Monster\"}",
     "{\"title\": \"The Garden\", \"themes\": null}"}

\* other answers to the shots_breakdown prompt
OtherShotsContents ==
    {"{\"three_act_structure\": [{\"act_type\": \"Setup\", \"title\": \"Start\"}], \"nine_shot_breakdown\": [{\"narration\": \"Pip hops\"}]}",
     "{}",
     "{nine_shot_breakdown: [{narration: \"Hi\",},],}",
     "{\"nine_shot_breakdown\": [",
     "{\"nine_shot_breakdown\": [{\"camera_direction\": {\"type\": 5}}]}"}

\* a template without the commas, and with a comma at every place
Plain(template) == Replace(template, "@", "")
Commas(template) == Replace(template, "@", ",")

MainContents ==
    {Plain(t) : t \in MainTemplates} \cup {Commas(t) : t \in MainTemplates}
    \cup OtherMainContents

ShotsContents ==
    {Plain(t) : t \in ShotsTemplates} \cup {Commas(t) : t \in ShotsTemplates}
    \cup OtherShotsContents

(***************************************************************************)
(* The state machine.  pc is the position of one run of main: "ready"      *)
(* before generate_brief is called, "main_generated" and "generated" once  *)
(* the service has answered the first and the second prompt, "main_parsed" *)
(* and "parsed" once the answers are parsed, "built" once                  *)
(* _build_brief_object has returned, "classified" once generate_brief has  *)
(* attached the verdict, "returned" once it has returned to main,          *)
(* "json_exported" and "exported" once the files are written, "failed"     *)
(* once an exception has ended the run.  steps lists the calls the run has *)
(* made, loads the texts passed to json.loads, files the files written.    *)
(* A run reads the clock and does not advance it.                          *)
(***************************************************************************)
\* a run whose two answers are parsed: the answers are the JSON texts of the
\* parsed blobs, which parse as they are
Init ==
    /\ \E input \in Inputs :
        /\ brief_data = input[1]
        /\ shots_data = input[2]
    /\ brief_content = json_dump(brief_data)
    /\ shots_content = json_dump(shots_data)
    /\ pc = "parsed"
    /\ brief = NoValue
    /\ verdict = NoValue
    /\ calls = 0
    /\ error = ""
    /\ loads = <<brief_content, shots_content>>
    /\ diag = NoValue
    /\ steps = <<"_generate_content", "_generate_content",
                 "validate_and_repair", "validate_and_repair">>
    /\ files = <<>>
    /\ now = Instant(0, 0)
    /\ issued = {}

\* the generator is constructed and main has not called generate_brief
InitRun ==
    /\ brief_content = NoValue
    /\ shots_content = NoValue
    /\ brief_data = NoValue
    /\ shots_data = NoValue
    /\ pc = "ready"
    /\ brief = NoValue
    /\ verdict = NoValue
    /\ calls = 0
    /\ error = ""
    /\ loads = <<>>
    /\ diag = NoValue
    /\ steps = <<>>
    /\ files = <<>>
    /\ now = Instant(0, 0)
    /\ issued = {}

\* generate_brief: brief_content = self._generate_content(prompt, ...); the
\* service answers with a text, or the call raises
GenerateBriefContent ==
    /\ pc = "ready"
    /\ steps' = Append(steps, "_generate_content")
    /\ \/ /\ brief_content' \in MainContents
          /\ pc' = "main_generated"
          /\ UNCHANGED error
       \/ /\ pc' = "failed"
          /\ error' = "ResponseError"
          /\ UNCHANGED brief_content
    /\ UNCHANGED <<shots_content, brief_data, shots_data, brief, verdict, calls,
                   loads, diag, files, now, issued>>

\* generate_brief: shots_content = self._generate_content(...)
GenerateShotsContent ==
    /\ pc = "main_generated"
    /\ steps' = Append(steps, "_generate_content")
    /\ \/ /\ shots_content' \in ShotsContents
          /\ pc' = "generated"
          /\ UNCHANGED error
       \/ /\ pc' = "failed"
          /\ error' = "ResponseError"
          /\ UNCHANGED shots_content
    /\ UNCHANGED <<brief_content, brief_data, shots_data, brief, verdict, calls,
                   loads, diag, files, now, issued>>

\* generate_brief: brief_data = JSONValidator.validate_and_repair(brief_content)
ParseMain ==
    /\ pc = "generated"
    /\ steps' = Append(steps, "validate_and_repair")
    /\ LET r == validate_and_repair(brief_content)
       IN  /\ loads' = loads \o r.loads
           /\ IF r.exc # ""
              THEN /\ pc' = "failed"
                   /\ error' = r.exc
                   /\ diag' = r.diag
                   /\ UNCHANGED brief_data
              ELSE /\ pc' = "main_parsed"
                   /\ brief_data' = r.val
                   /\ UNCHANGED <<error, diag>>
    /\ UNCHANGED <<brief_content, shots_content, shots_data, brief, verdict,
                   calls, files, now, issued>>

\* ParseShots carrying on with an empty blob when the text does not parse
ParseShots_EmptyOnError ==
    /\ pc = "main_parsed"
    /\ steps' = Append(steps, "validate_and_repair")
    /\ LET r == validate_and_repair(shots_content)
       IN  /\ loads' = loads \o r.loads
           /\ pc' = "parsed"
           /\ shots_data' = IF r.exc # "" THEN JDict(<<>>) ELSE r.val
    /\ UNCHANGED <<brief_content, shots_content, brief_data, brief, verdict,
                   calls, error, diag, files, now, issued>>

\* generate_brief: shots_data = JSONValidator.validate_and_repair(shots_content)
ParseShots ==
    /\ pc = "main_parsed"
    /\ steps' = Append(steps, "validate_and_repair")
    /\ LET r == validate_and_repair(shots_content)
       IN  /\ loads' = loads \o r.loads
           /\ IF r.exc # ""
              THEN /\ pc' = "failed"
                   /\ error' = r.exc
                   /\ diag' = r.diag
                   /\ UNCHANGED shots_data
              ELSE /\ pc' = "parsed"
                   /\ shots_data' = r.val
                   /\ UNCHANGED <<error, diag>>
    /\ UNCHANGED <<brief_content, shots_content, brief_data, brief, verdict,
                   calls, files, now, issued>>

\* generate_brief: brief = self._build_brief_object(brief_data, shots_data)
Build ==
    /\ pc = "parsed"
    /\ steps' = Append(steps, "_build_brief_object")
    /\ LET r == _build_brief_object(brief_data, shots_data)
       IN  IF r.exc # ""
           THEN /\ pc' = "failed"
                /\ error' = r.exc
                /\ UNCHANGED brief
           ELSE /\ pc' = "built"
                /\ brief' = r.val
                /\ UNCHANGED error
    /\ UNCHANGED <<brief_content, shots_content, brief_data, shots_data, verdict,
                   calls, loads, diag, files, now, issued>>

\* Classify attaching the rating and the safety bit of the verdict only
Classify_RatingOnly ==
    /\ pc = "built"
    /\ steps' = Append(steps, "validate")
    /\ LET r == validate(brief)
       IN  IF r.exc # ""
           THEN /\ pc' = "failed"
                /\ error' = r.exc
                /\ UNCHANGED brief
           ELSE /\ pc' = "classified"
                /\ brief' = [brief EXCEPT !.content_safety.rating = r.val.rating,
                                          !.content_safety.is_safe = r.val.is_safe]
                /\ UNCHANGED error
    /\ UNCHANGED <<brief_content, shots_content, brief_data, shots_data, verdict,
                   calls, loads, diag, files, now, issued>>

\* generate_brief: brief.content_safety = ContentSafetyValidator.validate(brief)
Classify ==
    /\ pc = "built"
    /\ steps' = Append(steps, "validate")
    /\ LET r == validate(brief)
       IN  IF r.exc # ""
           THEN /\ pc' = "failed"
                /\ error' = r.exc
                /\ UNCHANGED brief
           ELSE /\ pc' = "classified"
                /\ brief' = [brief EXCEPT !.content_safety = r.val]
                /\ UNCHANGED error
    /\ UNCHANGED <<brief_content, shots_content, brief_data, shots_data, verdict,
                   calls, loads, diag, files, now, issued>>

\* generate_brief: return brief
Return ==
    /\ pc = "classified"
    /\ pc' = "returned"
    /\ steps' = Append(steps, "return")
    /\ UNCHANGED <<brief_content, shots_content, brief_data, shots_data, brief,
                   verdict, calls, error, loads, diag, files, now, issued>>

\* main: export_brief_to_json(brief, json_path)
ExportJson ==
    /\ pc = "returned"
    /\ pc' = "json_exported"
    /\ steps' = Append(steps, "export_brief_to_json")
    /\ files' = Append(files, <<"brief_" \o brief.brief_id \o ".json",
                                json_dump(to_dict(brief))>>)
    /\ UNCHANGED <<brief_content, shots_content, brief_data, shots_data, brief,
                   verdict, calls, error, loads, diag, now, issued>>

\* the narrative rendering of a brief; its text is not part of the model
Narrative(b) == "narrative of " \o b.brief_id

\* main: export_brief_to_markdown(brief, md_path); the file is written once
\* the whole text is made
ExportMarkdown ==
    /\ pc = "json_exported"
    /\ steps' = Append(steps, "export_brief_to_markdown")
    /\ IF MarkdownError(brief) # ""
       THEN /\ pc' = "failed"
            /\ error' = MarkdownError(brief)
            /\ UNCHANGED files
       ELSE /\ pc' = "exported"
            /\ files' = Append(files, <<"brief_" \o brief.brief_id \o ".md",
                                        Narrative(brief)>>)
            /\ UNCHANGED error
    /\ UNCHANGED <<brief_content, shots_content, brief_data, shots_data, brief,
                   verdict, calls, loads, diag, now, issued>>

\* Validate with the warning list shared between calls (a class-level list
\* instead of the local `warnings = []`)
Validate_SharedWarnings ==
    /\ pc \in {"built", "classified"}
    /\ calls < MaxCalls
    /\ LET r == validate(brief)
       IN  verdict' =
             IF calls > 0 /\ r.exc = "" /\ verdict.exc = ""
             THEN [r EXCEPT !.val.warnings = verdict.val.warnings \o @]
             ELSE r
    /\ calls' = calls + 1
    /\ UNCHANGED <<brief_content, shots_content, brief_data, shots_data, pc, brief,
                   error, loads, diag, steps, files, now, issued>>

\* a call of the static method ContentSafetyValidator.validate on the
\* brief; verdict records what the call returned or raised
Validate ==
    /\ pc \in {"built", "classified"}
    /\ calls < MaxCalls
    /\ verdict' = validate(brief)
    /\ calls' = calls + 1
    /\ UNCHANGED <<brief_content, shots_content, brief_data, shots_data, pc, brief,
                   error, loads, diag, steps, files, now, issued>>

\* the clock moves on to a later instant
Tick ==
    /\ \E instant \in Instants :
        /\ Before(now, instant)
        /\ now' = instant
    /\ UNCHANGED <<brief_content, shots_content, brief_data, shots_data, pc, brief,
                   verdict, calls, error, loads, diag, steps, files, issued>>

\* the titles BriefGenerator._generate_brief_id is called with
Titles == {"The Garden", "The Monster", "untitled"}

\* a call of the static method BriefGenerator._generate_brief_id; issued
\* records the title, the instant of the call and the identifier returned
GenerateBriefId ==
    /\ Cardinality(issued) < MaxIds
    /\ \E title \in Titles :
        issued' = issued \cup {[title |-> title, instant |-> now,
                                brief_id |-> _generate_brief_id(title, now)]}
    /\ UNCHANGED <<brief_content, shots_content, brief_data, shots_data, pc, brief,
                   verdict, calls, error, loads, diag, steps, files, now>>

\* the schema defaulter and the classifier on parsed blobs
Next == Build \/ Classify \/ Validate

Spec == Init /\ [][Next]_vars

\* one run of main from the answers of the service on
NextRun ==
    \/ GenerateBriefContent
    \/ GenerateShotsContent
    \/ ParseMain
    \/ ParseShots
    \/ Build
    \/ Classify
    \/ Return
    \/ ExportJson
    \/ ExportMarkdown

SpecRun == InitRun /\ [][NextRun]_vars

\* calls of _generate_brief_id while the clock runs
NextIds == Tick \/ GenerateBriefId

SpecIds == InitRun /\ [][NextIds]_vars

(***************************************************************************)
(* Properties.                                                             *)
(***************************************************************************)
Built == pc \in {"built", "classified", "returned", "json_exported", "exported"}

\* a call of validate has returned a verdict
ValidateReturned == calls > 0 /\ verdict.exc = ""

Keywords(taxonomy) ==
    {KeywordItems(taxonomy)[i][2] : i \in DOMAIN KeywordItems(taxonomy)}

Mentions(text, words) == \E w \in words : Contains(Lower(text), w)

\* the texts of the fields outside the shots that the classifier is to scan
MainTexts(b) ==
    {Str(b.title), Str(b.synopsis), Str(b.themes), Str(b.moral_lessons),
     Str(b.visual_style), Str(b.animation_style),
     Str(b.world_building.location_description)}
    \cup {Str(b.characters[i].description) : i \in DOMAIN b.characters}

Narrations(b) ==
    {Str(b.nine_shot_breakdown[i].narration) : i \in DOMAIN b.nine_shot_breakdown}

ScannedTexts(b) == MainTexts(b) \cup Narrations(b)

AgeAdvice == "Simplify language and reduce scary elements for younger audiences"

\* C1: whenever validate returns for a brief with a forbidden keyword in the
\* lower-cased text of any scanned field (title, synopsis, themes, lessons,
\* styles, a character's description, the location description, a shot's
\* narration), the verdict is NOT_SUITABLE and not safe
C1_ForbiddenForcesNotSuitable ==
    (ValidateReturned
        /\ \E x \in ScannedTexts(brief) : Mentions(x, Keywords(FORBIDDEN_KEYWORDS)))
    => /\ verdict.val.rating = "NOT_SUITABLE"
       /\ verdict.val.is_safe = FALSE

CautionTitle == [mild_conflict |-> "Mild Conflict", minor_peril |-> "Minor Peril"]

\* the caution keywords the narrations of the brief contain
NarratedCaution(b) ==
    {i \in DOMAIN KeywordItems(CAUTION_KEYWORDS) :
        \E x \in Narrations(b) :
            Contains(Lower(x), KeywordItems(CAUTION_KEYWORDS)[i][2])}

\* C2: when the narrations contain k distinct caution keywords and no other
\* scanned field contains a caution or forbidden keyword, validate returns
\* exactly k warnings, "<Category Title>: '<keyword>' detected" for each
C2_NarrationCautionWarned ==
    (ValidateReturned
        /\ \A x \in MainTexts(brief) :
            ~Mentions(x, Keywords(CAUTION_KEYWORDS) \cup Keywords(FORBIDDEN_KEYWORDS)))
    => /\ Len(verdict.val.warnings) = Cardinality(NarratedCaution(brief))
       /\ \A i \in NarratedCaution(brief) :
            \E j \in DOMAIN verdict.val.warnings :
                verdict.val.warnings[j] =
                    CautionTitle[KeywordItems(CAUTION_KEYWORDS)[i][1]] \o ": '"
                        \o KeywordItems(CAUTION_KEYWORDS)[i][2] \o "' detected"

InSeq(x, xs) == \E i \in DOMAIN xs : xs[i] = x

\* C3: when validate returns without a forbidden match, the rating follows
\* from the number c of caution matches (one warning each) alone: c > 3 gives
\* PG-13 and the advice to reduce conflict, c of 2 or 3 gives PG and the
\* parental-guidance advice, c <= 1 gives G and neither advice
C3_RatingFromCautionCount ==
    (ValidateReturned /\ verdict.val.safety_flags = <<>>)
    => LET c == Len(verdict.val.warnings)
           recs == verdict.val.recommendations
       IN  /\ c > 3 => /\ verdict.val.rating = "PG-13"
                       /\ InSeq("Consider reducing conflict intensity", recs)
           /\ c \in {2, 3} => /\ verdict.val.rating = "PG"
                              /\ InSeq("Minor parental guidance suggested", recs)
           /\ c <= 1 => /\ verdict.val.rating = "G"
                        /\ ~InSeq("Consider reducing conflict intensity", recs)
                        /\ ~InSeq("Minor parental guidance suggested", recs)

\* C3 witness: a verdict of PG on two or three caution matches although the
\* positive count is high enough for the positive-messaging advice
C3_Witness ==
    /\ ValidateReturned
    /\ verdict.val.safety_flags = <<>>
    /\ Len(verdict.val.warnings) \in {2, 3}
    /\ verdict.val.rating = "PG"
    /\ InSeq("Strong positive messaging and educational value",
             verdict.val.recommendations)

\* C4: every call of validate on a built brief returns a verdict, and the
\* verdict is G when no keyword matched
C4_ValidateNeverRaises ==
    calls > 0
    => /\ verdict.exc = ""
       /\ (\A x \in ScannedTexts(brief) :
              ~Mentions(x, Keywords(CAUTION_KEYWORDS) \cup Keywords(FORBIDDEN_KEYWORDS)))
          => verdict.val.rating = "G"

\* the lower bound of the brief's target age range
AgeLowerBound(b) == IntOf(SplitFirst(b.target_audience_age_range.v, "-"))

\* C5: in a returned verdict the age advice is present exactly if the lower
\* bound of the age range is below 5 and there is a caution match; with no
\* caution and no forbidden match and a lower bound >= 5 the rating is G
C5_AgeAdviceIff ==
    ValidateReturned
    => /\ InSeq(AgeAdvice, verdict.val.recommendations)
            <=> (AgeLowerBound(brief) < 5 /\ Len(verdict.val.warnings) > 0)
       /\ (/\ verdict.val.warnings = <<>>
           /\ verdict.val.safety_flags = <<>>
           /\ AgeLowerBound(brief) >= 5)
          => (verdict.val.rating = "G"
                /\ ~InSeq(AgeAdvice, verdict.val.recommendations))

\* C5 witness: the age advice next to a rating other than G
C5_Witness ==
    /\ ValidateReturned
    /\ AgeLowerBound(brief) < 5
    /\ verdict.val.rating = "PG-13"
    /\ InSeq(AgeAdvice, verdict.val.recommendations)

SourceActs == Iterate(Get(shots_data, "three_act_structure", JList(<<>>)))
SourceShots == Iterate(FirstNine(Get(shots_data, "nine_shot_breakdown", JList(<<>>))))

\* C7: every brief built has exactly 3 acts, whatever the number of act
\* entries in the shots blob, and at most 9 shots
C7_ThreeActsAtMostNineShots ==
    Built => /\ Len(brief.three_act_structure) = 3
             /\ Len(brief.nine_shot_breakdown) <= 9

\* C8: _build_brief_object returns a brief for every pair of parsed values;
\* no run ends in it without a brief
C8_BuildNeverFails == pc # "parsed" => brief # NoValue

\* the camera entry of a source shot, {} when the shot gives none
SourceCamera(shot_data) == Get(shot_data, "camera_direction", JDict(<<>>))

\* the defaults C9 names for the fields a source shot omits, with the given
\* values for an omitted transition and an omitted sound design
OmittedFieldsHold(transition, sound) ==
    \A i \in DOMAIN SourceShots :
        LET src == SourceShots[i]
            shot == brief.nine_shot_breakdown[i]
        IN  /\ ~HasKey(src, "duration_seconds") => shot.duration_seconds = JInt(20)
            /\ ~HasKey(SourceCamera(src), "type")
                    => shot.camera_direction.type = JStr("static")
            /\ ~HasKey(SourceCamera(src), "duration_seconds")
                    => shot.camera_direction.duration_seconds = JInt(5)
            /\ ~HasKey(src, "transitions") => shot.transitions = transition
            /\ ~HasKey(src, "sound_design") => shot.sound_design = sound

\* C9 as stated: a shot taken from the source holds, for each field the
\* source omits, duration 20, camera kind "static", camera duration 5,
\* transition "Cut" and sound design "Ambient sound"
C9_OmittedShotFieldsDefaulted ==
    Built => OmittedFieldsHold(JStr("Cut"), JStr("Ambient sound"))

\* C9 amended: a shot taken from the source holds, for each field the source
\* omits, duration 20, camera kind "static" and camera duration 5, while an
\* omitted transition and an omitted sound design are None; "Cut" and
\* "Ambient sound" are what the nine placeholder shots hold
C9_OmittedShotFieldsAmended ==
    Built => /\ OmittedFieldsHold(JNone, JNone)
             /\ SourceShots = <<>> =>
                  \A i \in DOMAIN brief.nine_shot_breakdown :
                      /\ brief.nine_shot_breakdown[i].transitions = JStr("Cut")
                      /\ brief.nine_shot_breakdown[i].sound_design = JStr("Ambient sound")

\* C9 witness: a built brief with a shot whose source entry gives neither a
\* duration nor a camera nor a transition nor a sound design
C9_Witness ==
    /\ Built
    /\ \E i \in DOMAIN SourceShots :
        /\ ~HasKey(SourceShots[i], "duration_seconds")
        /\ ~HasKey(SourceShots[i], "camera_direction")
        /\ ~HasKey(SourceShots[i], "transitions")
        /\ ~HasKey(SourceShots[i], "sound_design")
        /\ brief.nine_shot_breakdown[i].duration_seconds = JInt(20)
        /\ brief.nine_shot_breakdown[i].transitions = JNone

\* C10: with no source act the acts are the template Setup, Confrontation,
\* Resolution of 60 seconds each; with no source shot the shots are nine
\* placeholders numbered 1..9, of 20 seconds, with a static camera; with a
\* source act (shot) every act (shot) of the brief is made from its source
\* entry and none is a template act (placeholder shot)
C10_FallbackOnlyWhenEmpty ==
    Built =>
        LET acts == brief.three_act_structure
            shots == brief.nine_shot_breakdown
        IN  /\ SourceActs = <<>> =>
                /\ [i \in DOMAIN acts |-> acts[i].act_type]
                        = <<"Setup", "Confrontation", "Resolution">>
                /\ \A i \in DOMAIN acts : acts[i].duration_seconds = JInt(60)
            /\ SourceShots = <<>> =>
                /\ [i \in DOMAIN shots |-> shots[i].shot_number]
                        = [i \in 1..9 |-> JInt(i)]
                /\ \A i \in DOMAIN shots :
                    /\ shots[i].duration_seconds = JInt(20)
                    /\ shots[i].camera_direction.type = JStr("static")
            /\ SourceActs # <<>> =>
                /\ Len(acts) = Len(SourceActs)
                /\ \A i \in DOMAIN acts :
                    acts[i].title = Get(SourceActs[i], "title", JStr(""))
            /\ SourceShots # <<>> =>
                /\ Len(shots) = Len(SourceShots)
                /\ \A i \in DOMAIN shots :
                    shots[i].scene_description
                        = Get(SourceShots[i], "scene_description", JStr(""))

\* C10 witness: a brief built from a blob with shots and no act, holding the
\* template acts next to shots made from the source
C10_Witness ==
    /\ Built
    /\ SourceActs = <<>>
    /\ SourceShots # <<>>
    /\ Len(brief.three_act_structure) = 3
    /\ brief.three_act_structure[2].act_type = "Confrontation"
    /\ brief.nine_shot_breakdown[1].scene_description = JStr("Scene for shot 1")

\* the act kind C11 names for a label text
KindOfLabel(label) ==
    IF Contains(Lower(label), "setup") THEN "Setup"
    ELSE IF Contains(Lower(label), "confrontation") THEN "Confrontation"
    ELSE "Resolution"

\* every act of the built brief has the kind of its source entry's label,
\* an entry without a label counting as labelled `unlabelled`
ActKindsFollowLabels(unlabelled) ==
    \A i \in DOMAIN SourceActs :
        brief.three_act_structure[i].act_type
            = KindOfLabel(Get(SourceActs[i], "act_type", JStr(unlabelled)).v)

\* C11 as stated: the kind of every act made from a source entry is Setup
\* if the lower-cased label contains "setup", else Confrontation if it
\* contains "confrontation", else Resolution, an empty and an absent label
\* both giving Resolution
C11_ActKindFromLabel == Built => ActKindsFollowLabels("")

\* C11 amended: as above for every label the entry gives, the empty one
\* giving Resolution, while an entry without a label is a Setup act
C11_ActKindAmended == Built => ActKindsFollowLabels("Setup")

\* C11 witness: a brief built from entries labelled with both words, with
\* another word and with the empty text, next to an entry without label
C11_Witness ==
    /\ Built
    /\ \E i, j, k, l \in DOMAIN SourceActs :
        /\ Contains(Lower(Get(SourceActs[i], "act_type", JStr("")).v), "confrontation")
        /\ Contains(Lower(Get(SourceActs[i], "act_type", JStr("")).v), "setup")
        /\ brief.three_act_structure[i].act_type = "Setup"
        /\ Get(SourceActs[j], "act_type", JNone) = JStr("")
        /\ brief.three_act_structure[j].act_type = "Resolution"
        /\ ~HasKey(SourceActs[k], "act_type")
        /\ brief.three_act_structure[k].act_type = "Setup"
        /\ Get(SourceActs[l], "act_type", JNone) = JStr("confrontation!")
        /\ brief.three_act_structure[l].act_type = "Confrontation"

\* the number of calls of `name` the run has made
Called(name) == Cardinality({i \in DOMAIN steps : steps[i] = name})

\* the run has called validate_and_repair on the main answer, on the shots answer
MainParseTried == Called("validate_and_repair") >= 1
ShotsParseTried == Called("validate_and_repair") >= 2

\* C12: an answer that differs from a well-formed blob only by trailing
\* commas before closing braces and brackets parses to the value of the
\* well-formed blob, also when a string value holds ", name:" or ",]"
C12_TrailingCommasRepaired ==
    /\ MainParseTried =>
         \A t \in MainTemplates :
            brief_content = Commas(t) => brief_data = json_loads(Plain(t)).val
    /\ ShotsParseTried =>
         \A t \in ShotsTemplates :
            shots_content = Commas(t) => shots_data = json_loads(Plain(t)).val

\* the answer whose parse the run has tried last
LastParsed == IF ShotsParseTried THEN shots_content ELSE brief_content

\* C13: validate_and_repair raises only if the text does not parse after
\* both repairs either, and the error it raises is the decode diagnostic
\* (message and position) of the original text
C13_OriginalDiagnosticRaised ==
    error = "JSONDecodeError" =>
        /\ json_loads(FixMissingQuotes(FixTrailingCommas(LastParsed))).msg # ""
        /\ diag = Diagnostic(json_loads(LastParsed))

\* validate_and_repair has been called on an answer that it cannot parse
ParseFailed ==
    \/ MainParseTried /\ validate_and_repair(brief_content).exc # ""
    \/ ShotsParseTried /\ validate_and_repair(shots_content).exc # ""

\* C14: once the parse of the main answer or of the shots answer has
\* failed, the run has ended with that error: no brief is built, validate
\* is not called, generate_brief does not return and nothing is exported
C14_ParseFailureAborts ==
    ParseFailed =>
        /\ pc = "failed"
        /\ error = "JSONDecodeError"
        /\ brief = NoValue
        /\ Called("_build_brief_object") = 0
        /\ Called("validate") = 0
        /\ Called("return") = 0
        /\ Called("export_brief_to_json") = 0
        /\ Called("export_brief_to_markdown") = 0
        /\ files = <<>>

\* the shots answer failed to parse after the main answer was parsed
C14_Witness ==
    /\ ShotsParseTried
    /\ ParseFailed
    /\ brief_data # NoValue
    /\ pc = "failed"

\* C15: two calls of _generate_brief_id with the same title return the same
\* identifier if made at the same instant, and distinct identifiers if made
\* at two different instants, also when both fall within one second
C15_IdsFollowInstants ==
    \A a, b \in issued :
        a.title = b.title => (a.instant = b.instant <=> a.brief_id = b.brief_id)

\* a brief without the values that every construction makes anew
Regenerated(b) ==
    [b EXCEPT !.brief_id = "", !.generated_at = "",
              !.metadata.generation_timestamp = ""]

\* the brief built from the parsed text of the exported JSON file
Rebuilt ==
    LET d == json_loads(files[1][2])
    IN  IF d.msg # "" THEN Raised("JSONDecodeError")
        ELSE _build_brief_object(d.val, d.val)

\* C16: the JSON rendering of a classified brief, parsed and rebuilt by
\* _build_brief_object, gives a brief equal to it in every field but
\* brief_id, generated_at and the generation timestamp; the verdict of
\* content_safety is among the fields that are equal
C16_RoundTrip ==
    files # <<>> =>
        /\ Rebuilt.exc = ""
        /\ Regenerated(Rebuilt.val) = Regenerated(brief)

\* the run did with the answer `text` what `outcome` says: it passed the
\* texts loaded to json.loads, in turn, and kept the value or ended with the
\* exception
Followed(outcome, loaded, data) ==
    /\ loaded = outcome.loads
    /\ IF outcome.exc = "" THEN data = outcome.val
       ELSE pc = "failed" /\ error = outcome.exc

\* the texts passed to json.loads from the n-th on
LoadsFrom(n) == SubSeq(loads, n, Len(loads))

\* C17: validate_and_repair parses the text as it is; if that fails it
\* removes the trailing commas and parses again; only if that fails too it
\* quotes the bare keys and parses a third time; it returns the value of the
\* first parse that succeeds, so a text that parses once its trailing commas
\* are removed is not passed through the quoting of keys
C17_RetryAfterEachRepair ==
    /\ MainParseTried =>
        LET main == validate_and_repair_RetryAfterEach(brief_content)
            n == Min(Len(loads), Len(main.loads))
        IN  Followed(main, SubSeq(loads, 1, n), brief_data)
    /\ ShotsParseTried =>
        LET shots == validate_and_repair_RetryAfterEach(shots_content)
            n == Len(validate_and_repair(brief_content).loads)
        IN  Followed(shots, LoadsFrom(n + 1), shots_data)

\* all the shot entries of the source, kept or not
ShotEntries == Get(shots_data, "nine_shot_breakdown", JList(<<>>)).v

\* the shot comes from the source entry: it holds the entry's texts
FromEntry(shot, entry) ==
    /\ shot.narration = Get(entry, "narration", JStr(""))
    /\ shot.scene_description = Get(entry, "scene_description", JStr(""))

\* C18: the shots of a built brief are the first 9 entries of the source, in
\* the order of the source; a shot whose entry holds no shot_number has its
\* position in the list, counted from 1, as its number, and a shot whose
\* entry holds one keeps it as given
C18_FirstNineShotsNumbered ==
    (Built /\ Len(ShotEntries) > 0) =>
        /\ Len(brief.nine_shot_breakdown) = Min(9, Len(ShotEntries))
        /\ \A i \in DOMAIN brief.nine_shot_breakdown :
            /\ FromEntry(brief.nine_shot_breakdown[i], ShotEntries[i])
            /\ brief.nine_shot_breakdown[i].shot_number =
                 IF HasKey(ShotEntries[i], "shot_number")
                 THEN Get(ShotEntries[i], "shot_number", JNone)
                 ELSE JInt(i)

\* a brief built from ten source entries, with and without a shot_number,
\* whose scene descriptions all differ
C18_Witness ==
    /\ Built
    /\ Len(ShotEntries) = 10
    /\ \E i \in 2..9 : ~HasKey(ShotEntries[i], "shot_number")
    /\ \E i \in 1..9 : HasKey(ShotEntries[i], "shot_number")
                       /\ Get(ShotEntries[i], "shot_number", JNone) # JInt(i)
    /\ \A i, j \in 1..10 :
          i # j => Get(ShotEntries[i], "scene_description", JStr("")) #
                   Get(ShotEntries[j], "scene_description", JStr(""))

\* the calls of a run of generate_brief that returns, in their order
ReturningRun ==
    <<"_generate_content", "_generate_content",
      "validate_and_repair", "validate_and_repair",
      "_build_brief_object", "validate", "return">>

\* C19: a run of generate_brief that returns has parsed, built, classified
\* and returned in this order and has called validate once, on the built
\* brief; the brief it returns, which is the one exported, holds as
\* content_safety the whole verdict that validate gives for it
C19_ClassifiedOnceBeforeReturn ==
    Called("return") > 0 =>
        /\ SubSeq(steps, 1, Len(ReturningRun)) = ReturningRun
        /\ Called("validate") = 1
        /\ validate(brief).exc = ""
        /\ brief.content_safety = validate(brief).val
        /\ files # <<>> => files[1][2] = json_dump(to_dict(brief))

\* a run that returned and exported a brief whose verdict is not the
\* placeholder: it holds warnings and a rating other than G
C19_Witness ==
    /\ pc = "exported"
    /\ Called("return") = 1
    /\ brief.content_safety.warnings # <<>>
    /\ brief.content_safety.rating # ContentRating.G
====
